---- MODULE Spec2Model ----
(***************************************************************************)
(* Model of src/app.py: the ticker normaliser, the bounded-retry fetcher,  *)
(* the indicator and scoring functions and the batch analysis loop.        *)
(*                                                                         *)
(* Data frames are records [columns, multi, rows]: columns is the ordered  *)
(* list of column names, multi says whether the column index is a          *)
(* MultiIndex, rows is the list of trading sessions, each a record         *)
(* [Close, Volume].  Cells are naturals; the missing value (NaN) is the    *)
(* cell NaN.  A close is a whole number of some fixed fraction of the      *)
(* price unit (the rules of calculate_score only compare closes and their  *)
(* means, so the fraction does not matter to them); the frames of the      *)
(* batch loop hold closes in thousandths, which the two-decimal price of   *)
(* a batch record rounds to hundredths.                                    *)
(* Means are exact rationals [num, den]; the rational with                 *)
(* den = 0 is the undefined mean, and every ordering comparison with it    *)
(* is false, as for a float NaN.                                           *)
(* Python's None is the empty tuple and a present value x is <<x>>.        *)
(***************************************************************************)
EXTENDS Integers, Sequences, FiniteSets, TLC

VARIABLES pc, m_type, target_tickers, idx, ticker, final_t, df, news, vol,
          score, rules, trend, batch_results, watch_list, failures,
          attempt, attempt_log, fetched, error

vars == <<pc, m_type, target_tickers, idx, ticker, final_t, df, news, vol,
          score, rules, trend, batch_results, watch_list, failures,
          attempt, attempt_log, fetched, error>>

batchVars == <<target_tickers, idx, batch_results, watch_list, failures,
               news, vol, error>>
fetchVars == <<attempt, attempt_log, fetched>>
normVars == <<m_type, ticker, final_t>>
scoreVars == <<score, rules>>

(***************************************************************************)
(* Bounds of the model.                                                    *)
(***************************************************************************)
MaxClose == 3
MaxTokenLen == 3
MaxBatch == 2

(***************************************************************************)
(* Program constants.                                                      *)
(***************************************************************************)
max_retries_four == 3 + 1
max_retries == 3
MinPoints == 60
ShortWindow == 20
LongWindow == 60
VolWindow == 5
TailPoints == 120
NumBins == 30
BaseScore == 50
TrendDelta == 25
SupportDelta == 10
VolumeDelta == 15
MaxScore == 100
BullThreshold == 70
BearThreshold == 30
NaN == -1

None == <<>>
Some(x) == <<x>>

US == "US"
TW == "TW"
Markets == {US, TW}

(***************************************************************************)
(* Rationals and the float NaN.                                            *)
(***************************************************************************)
NaNMean == [num |-> 0, den |-> 0]
Val(c) == IF c = NaN THEN NaNMean ELSE [num |-> c, den |-> 1]
IsNa(x) == x.den = 0
Gt(x, y) == x.den # 0 /\ y.den # 0 /\ x.num * y.den > y.num * x.den
Lt(x, y) == Gt(y, x)
Times15(x) == [num |-> x.num * 3, den |-> x.den * 2]

(***************************************************************************)
(* Column access and rolling means.                                        *)
(***************************************************************************)
HasCol(d, name) == \E i \in 1..Len(d.columns) : d.columns[i] = name

RECURSIVE SumCells(_, _, _)
SumCells(cells, lo, hi) ==
    IF lo > hi THEN 0
    ELSE IF lo = hi THEN cells[lo]
    ELSE LET mid == (lo + hi) \div 2
         IN  SumCells(cells, lo, mid) + SumCells(cells, mid + 1, hi)

\* value at the last row of cells.rolling(w).mean()
RollingMeanLast(cells, w) ==
    LET n == Len(cells)
    IN  IF n < w THEN NaNMean
        ELSE IF \E i \in (n - w + 1)..n : cells[i] = NaN THEN NaNMean
        ELSE [num |-> SumCells(cells, n - w + 1, n), den |-> w]

CloseCol(d) == [i \in 1..Len(d.rows) |-> d.rows[i].Close]
VolumeCol(d) == [i \in 1..Len(d.rows) |-> d.rows[i].Volume]

LastMA20(d) == RollingMeanLast(CloseCol(d), ShortWindow)
LastMA60(d) == RollingMeanLast(CloseCol(d), LongWindow)

(***************************************************************************)
(* calculate_score.  The run records the rules that were applied and       *)
(* whether an exception was swallowed by the try block.                    *)
(***************************************************************************)
Clamp(s) == IF s > MaxScore THEN MaxScore ELSE IF s < 0 THEN 0 ELSE s

\* the trend rule without its close > MA20 condition
TrendUp_ma_only(d) == Gt(LastMA20(d), LastMA60(d))

TrendUp(d) ==
    LET close == Val(d.rows[Len(d.rows)].Close)
    IN  Gt(LastMA20(d), LastMA60(d)) /\ Gt(close, LastMA20(d))

TrendDown(d) ==
    ~TrendUp(d) /\ Lt(Val(d.rows[Len(d.rows)].Close), LastMA60(d))

\* the support rule made exclusive with the trend rule
Support_exclusive(d) ==
    /\ ~TrendUp(d)
    /\ Gt(Val(d.rows[Len(d.rows)].Close), LastMA20(d))

Support(d) == Gt(Val(d.rows[Len(d.rows)].Close), LastMA20(d))

VolMA5(d) == RollingMeanLast(VolumeCol(d), VolWindow)

\* the volume rule without its rising-price condition
VolumeSurge_any_price(d) ==
    Gt(Val(d.rows[Len(d.rows)].Volume), Times15(VolMA5(d)))

VolumeSurge(d) ==
    LET n == Len(d.rows)
    IN  /\ Gt(Val(d.rows[n].Volume), Times15(VolMA5(d)))
        /\ Gt(Val(d.rows[n].Close), Val(d.rows[n - 1].Close))

calculate_score_run(d) ==
    IF Len(d.rows) < MinPoints
    THEN [score |-> BaseScore, rules |-> {}, swallowed |-> FALSE]
    \* pd.isna(last['MA20']) or pd.isna(last['MA60']), left to right
    ELSE IF ~HasCol(d, "MA20")
    THEN [score |-> Clamp(BaseScore), rules |-> {}, swallowed |-> TRUE]
    ELSE IF IsNa(LastMA20(d))
    THEN [score |-> BaseScore, rules |-> {}, swallowed |-> FALSE]
    ELSE IF ~HasCol(d, "MA60")
    THEN [score |-> Clamp(BaseScore), rules |-> {}, swallowed |-> TRUE]
    ELSE IF IsNa(LastMA60(d))
    THEN [score |-> BaseScore, rules |-> {}, swallowed |-> FALSE]
    \* the trend rule reads last['Close'] in its if or in its elif
    ELSE IF ~HasCol(d, "Close")
    THEN [score |-> Clamp(BaseScore), rules |-> {}, swallowed |-> TRUE]
    ELSE
      LET r1 == IF TrendUp(d) THEN {"trend_up"}
                ELSE IF TrendDown(d) THEN {"trend_down"} ELSE {}
          s1 == IF TrendUp(d) THEN BaseScore + TrendDelta
                ELSE IF TrendDown(d) THEN BaseScore - TrendDelta
                ELSE BaseScore
          r2 == IF Support(d) THEN r1 \cup {"support"} ELSE r1
          s2 == IF Support(d) THEN s1 + SupportDelta ELSE s1
      IN  IF ~HasCol(d, "Volume")
          THEN [score |-> Clamp(s2), rules |-> r2, swallowed |-> TRUE]
          ELSE IF VolumeSurge(d)
          THEN [score |-> Clamp(s2 + VolumeDelta),
                rules |-> r2 \cup {"volume"}, swallowed |-> FALSE]
          ELSE [score |-> Clamp(s2), rules |-> r2, swallowed |-> FALSE]

\* a short series answered with a sentinel instead of the base score
calculate_score_sentinel(d) ==
    IF Len(d.rows) < MinPoints THEN -1 ELSE calculate_score_run(d).score

calculate_score(d) == calculate_score_run(d).score

(***************************************************************************)
(* Upstream data: the frames yf.download can hand back.                    *)
(***************************************************************************)
PriceCols == <<"Close", "High", "Low", "Open", "Volume">>
NoVolumeCols == <<"Close", "High", "Low", "Open">>
NoCloseCols == <<"High", "Low", "Open", "Volume">>
DupCols == <<"Close", "High", "Low", "Open", "Volume", "Close">>

\* len sessions: closes A up to the last 20, then B, then P and L for the
\* last two; volume V except W on the last session; the close nanAt
\* sessions from the end (counting the last as 1) is missing.
MkRows(len, A, B, P, L, V, W, nanAt) ==
    [i \in 1..len |->
        [Close  |-> IF nanAt > 0 /\ i = len - nanAt + 1 THEN NaN
                    ELSE IF i = len THEN L
                    ELSE IF i = len - 1 THEN P
                    ELSE IF i > len - ShortWindow THEN B
                    ELSE A,
         Volume |-> IF i = len THEN W ELSE V]]

\* 120 closes rising linearly from 100 to 160 (in units of 1/119), volume
\* 1000 except 2000 on the last session.
RampRows ==
    [i \in 1..TailPoints |->
        [Close  |-> 11900 + 60 * (i - 1),
         Volume |-> IF i = TailPoints THEN 2000 ELSE 1000]]

MkFrame(cols, rows) == [columns |-> cols, multi |-> FALSE, rows |-> rows]

\* df['MA20'] = ..., df['MA60'] = ...: the two columns are appended; their
\* last values are LastMA20 and LastMA60.
WithMAs(d) == [d EXCEPT !.columns = d.columns \o <<"MA20", "MA60">>]

ScoreLens == {1, MinPoints - 1, MinPoints, MinPoints + 1, TailPoints + 1}
CloseVals == 1..MaxClose
VolVals == {0, 1, 7}
LastVolVals == {0, 2, 12, 13}
NaNPlaces == {1, ShortWindow + 1, LongWindow + 1}

\* the frames calculate_score is tried on: every close and volume pattern;
\* a missing close in the last row, inside the long window only, or before
\* both windows; a missing volume; no Volume column; the linear ramp
ScoreInput(f) ==
    \/ \E n \in ScoreLens, A \in CloseVals, B \in CloseVals, P \in CloseVals,
          L \in CloseVals, V \in VolVals, W \in LastVolVals :
          f = Some(WithMAs(MkFrame(PriceCols, MkRows(n, A, B, P, L, V, W, 0))))
    \/ \E n \in ScoreLens, A \in CloseVals, B \in CloseVals, P \in CloseVals,
          L \in CloseVals, k \in NaNPlaces :
          f = Some(WithMAs(MkFrame(PriceCols, MkRows(n, A, B, P, L, 1, 2, k))))
    \/ \E n \in ScoreLens, A \in CloseVals, B \in CloseVals, P \in CloseVals,
          L \in CloseVals, vw \in {<<NaN, 2>>, <<1, NaN>>} :
          f = Some(WithMAs(MkFrame(PriceCols,
                              MkRows(n, A, B, P, L, vw[1], vw[2], 0))))
    \/ \E n \in ScoreLens, A \in CloseVals, B \in CloseVals, P \in CloseVals,
          L \in CloseVals :
          f = Some(WithMAs(MkFrame(NoVolumeCols,
                                   MkRows(n, A, B, P, L, 1, 2, 0))))
    \/ f = Some(WithMAs(MkFrame(PriceCols, RampRows)))

(***************************************************************************)
(* Values of the variables a specification does not use.                   *)
(***************************************************************************)
IdleBatch ==
    /\ target_tickers = <<>>
    /\ idx = 0
    /\ batch_results = <<>>
    /\ watch_list = <<>>
    /\ failures = <<>>
    /\ news = None
    /\ vol = None
    /\ error = "none"

IdleFetch ==
    /\ attempt = 0
    /\ attempt_log = <<>>
    /\ fetched = None

IdleNorm ==
    /\ m_type = US
    /\ ticker = <<>>
    /\ final_t = <<>>

IdleScore ==
    /\ score = BaseScore
    /\ rules = {}

(***************************************************************************)
(* The trend label of a score (the batch record's fourth field).  The      *)
(* three labels of the source are written in English: "bullish",           *)
(* "bearish" and "consolidating".                                          *)
(***************************************************************************)
\* the bullish threshold taken strictly
TrendLabel_strict(s) ==
    IF s > BullThreshold THEN "bullish"
    ELSE IF s <= BearThreshold THEN "bearish"
    ELSE "consolidating"

\* the bullish threshold put at the base score
TrendLabel_from_base(s) ==
    IF s >= BaseScore THEN "bullish"
    ELSE IF s <= BearThreshold THEN "bearish"
    ELSE "consolidating"

TrendLabel(s) ==
    IF s >= BullThreshold THEN "bullish"
    ELSE IF s <= BearThreshold THEN "bearish"
    ELSE "consolidating"

(***************************************************************************)
(* calculate_score, and the trend label of its result, applied to one      *)
(* frame.                                                                  *)
(***************************************************************************)
InitScore ==
    /\ pc = "input"
    /\ ScoreInput(df)
    /\ trend = "none"
    /\ IdleBatch /\ IdleFetch /\ IdleNorm /\ IdleScore

ScoreStep ==
    /\ pc = "input"
    /\ score' = calculate_score(df[1])
    /\ rules' = calculate_score_run(df[1]).rules
    /\ trend' = TrendLabel(calculate_score(df[1]))
    /\ pc' = "scored"
    /\ UNCHANGED <<df, batchVars, fetchVars, normVars>>

NextScore == ScoreStep

SpecScore == InitScore /\ [][NextScore]_vars

(***************************************************************************)
(* The trend label applied to one score.                                   *)
(***************************************************************************)
InitLabel ==
    /\ pc = "input"
    /\ score \in 0..MaxScore
    /\ rules = {}
    /\ trend = "none"
    /\ df = None
    /\ IdleBatch /\ IdleFetch /\ IdleNorm

LabelStep ==
    /\ pc = "input"
    /\ trend' = TrendLabel(score)
    /\ pc' = "labelled"
    /\ UNCHANGED <<df, score, rules, batchVars, fetchVars, normVars>>

NextLabel == LabelStep

SpecLabel == InitLabel /\ [][NextLabel]_vars

(***************************************************************************)
(* Ticker normalisation (the head of process_stock_data).  A token is a    *)
(* tuple of characters.                                                    *)
(***************************************************************************)
Digits == {"2", "7"}
Alphabet == Digits \cup {"n", "t", "W", " ", "."}
Suffix == <<".", "T", "W">>

UpperChar(c) == IF c = "n" THEN "N" ELSE IF c = "t" THEN "T" ELSE c
UpperStr(t) == [i \in 1..Len(t) |-> UpperChar(t[i])]

RECURSIVE LStrip(_)
LStrip(t) == IF t # <<>> /\ Head(t) = " " THEN LStrip(Tail(t)) ELSE t

RECURSIVE RStrip(_)
RStrip(t) ==
    IF t # <<>> /\ t[Len(t)] = " "
    THEN RStrip(SubSeq(t, 1, Len(t) - 1)) ELSE t

Strip(t) == RStrip(LStrip(t))

IsDigit(t) == t # <<>> /\ \A i \in 1..Len(t) : t[i] \in Digits

EndsWith(t, suf) ==
    /\ Len(t) >= Len(suf)
    /\ SubSeq(t, Len(t) - Len(suf) + 1, Len(t)) = suf

\* the suffix added whatever the market
NormalizeTicker_any_market(t, market) ==
    LET u == Strip(UpperStr(t))
    IN  IF ~EndsWith(u, Suffix) /\ IsDigit(u) THEN u \o Suffix ELSE u

NormalizeTicker(t, market) ==
    LET u == Strip(UpperStr(t))
    IN  IF market = TW /\ ~EndsWith(u, Suffix) /\ IsDigit(u)
        THEN u \o Suffix
        ELSE u

Tokens == UNION {[1..n -> Alphabet] : n \in 0..MaxTokenLen}

InitNorm ==
    /\ pc = "input"
    /\ ticker \in Tokens
    /\ m_type \in Markets
    /\ final_t = <<>>
    /\ trend = "none"
    /\ df = None
    /\ IdleBatch /\ IdleFetch /\ IdleScore

NormStep ==
    /\ pc = "input"
    /\ final_t' = NormalizeTicker(ticker, m_type)
    /\ pc' = "normalized"
    /\ UNCHANGED <<m_type, ticker, df, trend, scoreVars, batchVars,
                   fetchVars>>

NextNorm == NormStep

SpecNorm == InitNorm /\ [][NextNorm]_vars

(***************************************************************************)
(* fetch_data_robust: one upstream call per attempt.  An upstream outcome  *)
(* either raises or hands back a frame.                                    *)
(***************************************************************************)
Raises == [raises |-> TRUE, frame |-> MkFrame(<<>>, <<>>)]
Returns(f) == [raises |-> FALSE, frame |-> f]

RECURSIVE DropDuplicated(_)
DropDuplicated(cols) ==
    IF cols = <<>> THEN <<>>
    ELSE LET init == DropDuplicated(SubSeq(cols, 1, Len(cols) - 1))
             c == cols[Len(cols)]
         IN  IF \E i \in 1..Len(init) : init[i] = c THEN init
             ELSE Append(init, c)

\* the MultiIndex is collapsed to its first level, duplicated names go
NormalizeColumns(f) ==
    [f EXCEPT !.multi = FALSE, !.columns = DropDuplicated(f.columns)]

Empty(f) == Len(f.rows) = 0 \/ Len(f.columns) = 0

AttemptSucceeds(o) ==
    /\ ~o.raises
    /\ ~Empty(NormalizeColumns(o.frame))
    /\ HasCol(NormalizeColumns(o.frame), "Close")

OutcomeKind(o) ==
    IF o.raises THEN "exception"
    ELSE IF Empty(NormalizeColumns(o.frame)) THEN "empty"
    ELSE IF ~HasCol(NormalizeColumns(o.frame), "Close") THEN "no_close"
    ELSE "ok"

(***************************************************************************)
(* The rest of process_stock_data: the volume profile.  The profile is     *)
(* kept as its number of bins and the volume it holds in all.              *)
(***************************************************************************)
RecentRows(d) ==
    LET n == Len(d.rows)
    IN  IF n <= TailPoints THEN d.rows ELSE SubSeq(d.rows, n - TailPoints + 1, n)

\* the volume of the sessions that fall in some bin: those with a close
\* (and a volume: sum() skips the missing ones)
BinnedVolume(rows) ==
    SumCells([i \in 1..Len(rows) |->
                 IF rows[i].Close = NaN \/ rows[i].Volume = NaN THEN 0
                 ELSE rows[i].Volume], 1, Len(rows))

\* the profile refused below two sessions
VolProfile_two_points(d) ==
    LET recent == RecentRows(d)
    IN  IF Len(recent) < 2 THEN None
        ELSE IF \A i \in 1..Len(recent) : recent[i].Close = NaN THEN None
        ELSE IF ~HasCol(d, "Volume") THEN None
        ELSE Some([bins |-> NumBins, total |-> BinnedVolume(recent)])

VolProfile(d) ==
    LET recent == RecentRows(d)
    IN  IF recent = <<>> THEN None
        ELSE IF \A i \in 1..Len(recent) : recent[i].Close = NaN THEN None
        ELSE IF ~HasCol(d, "Volume") THEN None
        ELSE Some([bins |-> NumBins,
                   total |-> BinnedVolume(recent)])

NewsOutcomes == {<<>>, <<"headline">>}

(***************************************************************************)
(* generate_indicator_report and the display block of the loop: the        *)
(* exception they end with, if any.                                        *)
(***************************************************************************)
\* vol_ratio = last['Volume'] / vol_ma5 if vol_ma5 > 0 else 0
VolRatio(d) ==
    LET v == Val(d.rows[Len(d.rows)].Volume)
        m == VolMA5(d)
    IN  IF Gt(m, Val(0))
        THEN [num |-> v.num * m.den, den |-> v.den * m.num]
        ELSE Val(0)

ReportError(d) ==
    IF Len(d.rows) < MinPoints THEN "none"
    ELSE IF ~HasCol(d, "Volume") THEN "KeyError"
    ELSE IF d.rows[Len(d.rows)].Volume = NaN THEN "ValueError"
    ELSE "none"

DisplayError(d) ==
    IF Len(d.rows) < 2 THEN "IndexError"
    ELSE IF ~(HasCol(d, "Open") /\ HasCol(d, "High") /\ HasCol(d, "Low"))
    THEN "KeyError"
    ELSE ReportError(d)

(***************************************************************************)
(* The batch analysis loop.                                                *)
(***************************************************************************)
BatchTokens == {<<"2", "7">>, <<"n">>}

TickerLists == UNION {[1..n -> BatchTokens] : n \in 0..MaxBatch}

UpstreamFrames ==
    { MkFrame(PriceCols, <<>>),
      MkFrame(NoCloseCols, MkRows(2, 1000, 1000, 1000, 2000, 1, 1, 0)),
      MkFrame(PriceCols, MkRows(1, 2000, 2000, 2000, 2000, 1, 1, 0)),
      MkFrame(PriceCols, MkRows(1, 2000, 2000, 2000, 2000, 1, 1, 1)),
      MkFrame(PriceCols, MkRows(2, 1000, 1000, 1000, 2345, 1, 2, 0)),
      MkFrame(PriceCols,
              MkRows(MinPoints - 1, 1000, 2000, 2000, 2375, 1, 2, 0)),
      MkFrame(PriceCols, MkRows(MinPoints, 1000, 2000, 2000, 3000, 1, 2, 0)),
      MkFrame(PriceCols, MkRows(MinPoints, 3000, 1000, 1000, 1004, 1, 0, 0)),
      MkFrame(PriceCols, MkRows(MinPoints, 1000, 2000, 2000, 3000, 1, NaN, 0)),
      MkFrame(NoVolumeCols, MkRows(MinPoints, 1000, 2000, 2000, 3000, 1, 2, 0)),
      [columns |-> DupCols, multi |-> TRUE,
       rows |-> MkRows(TailPoints + 1, 2000, 2000, 2000, 2376, 1, 1, 0)] }

\* st.session_state.watch_list when the batch starts: empty in a new
\* session, else what the earlier batches of the session left
PriorWatchLists ==
    { <<>>,
      <<[Ticker |-> <<"N">>, Score |-> 100, Price |-> 3000]>> }

UpstreamOutcomes == {Raises} \cup {Returns(f) : f \in UpstreamFrames}

Init ==
    /\ pc = "loop"
    /\ m_type \in Markets
    /\ target_tickers \in TickerLists
    /\ idx = 0
    /\ ticker = <<>>
    /\ final_t = <<>>
    /\ df = None
    /\ news = None
    /\ vol = None
    /\ score = BaseScore
    /\ rules = {}
    /\ trend = "none"
    /\ batch_results = <<>>
    /\ watch_list \in PriorWatchLists
    /\ failures = <<>>
    /\ error = "none"
    /\ IdleFetch

\* for idx, ticker in enumerate(target_tickers): ... process_stock_data
\* up to the call of fetch_data_robust
BeginTicker ==
    /\ pc = "loop"
    /\ idx < Len(target_tickers)
    /\ ticker' = target_tickers[idx + 1]
    /\ final_t' = NormalizeTicker(target_tickers[idx + 1], m_type)
    /\ attempt' = 0
    /\ attempt_log' = <<>>
    /\ fetched' = None
    /\ pc' = "fetch"
    /\ UNCHANGED <<m_type, df, trend, scoreVars, batchVars>>

FetchAttempt ==
    /\ pc = "fetch"
    /\ attempt < max_retries
    /\ \E o \in UpstreamOutcomes :
          /\ attempt' = attempt + 1
          /\ attempt_log' = Append(attempt_log, o)
          /\ IF AttemptSucceeds(o)
             THEN /\ fetched' = Some(NormalizeColumns(o.frame))
                  /\ pc' = "process"
             ELSE /\ fetched' = None
                  /\ pc' = "fetch"
    /\ UNCHANGED <<df, trend, normVars, scoreVars, batchVars>>

FetchExhausted ==
    /\ pc = "fetch"
    /\ attempt >= max_retries
    /\ fetched' = None
    /\ pc' = "process"
    /\ UNCHANGED <<attempt, attempt_log, df, trend, normVars, scoreVars,
                   batchVars>>

\* process_stock_data after the fetch; the fetcher's locals are gone once
\* its result is taken
Process ==
    /\ pc = "process"
    /\ IF fetched = None \/ Empty(fetched[1]) \/ ~HasCol(fetched[1], "Close")
       THEN /\ df' = None
            /\ news' = None
            /\ vol' = None
       ELSE /\ df' = Some(WithMAs(fetched[1]))
            /\ vol' = VolProfile(WithMAs(fetched[1]))
            /\ \E n \in NewsOutcomes : news' = Some(n)
    /\ attempt' = 0
    /\ attempt_log' = <<>>
    /\ fetched' = None
    /\ pc' = "display"
    /\ UNCHANGED <<target_tickers, idx, batch_results, watch_list, failures,
                   error, trend, normVars, scoreVars>>

\* if df is not None: score and display
Analyze ==
    /\ pc = "display"
    /\ df # None
    /\ score' = calculate_score(df[1])
    /\ rules' = calculate_score_run(df[1]).rules
    /\ IF DisplayError(df[1]) # "none"
       THEN /\ error' = DisplayError(df[1])
            /\ pc' = "crashed"
       ELSE /\ error' = error
            /\ pc' = "append"
    /\ UNCHANGED <<target_tickers, idx, batch_results, watch_list, failures,
                   news, vol, df, trend, normVars, fetchVars>>

\* else: st.error(...)
Fail ==
    /\ pc = "display"
    /\ df = None
    /\ failures' = Append(failures, ticker)
    /\ pc' = "next"
    /\ UNCHANGED <<target_tickers, idx, batch_results, watch_list, news, vol,
                   error, df, trend, normVars, scoreVars, fetchVars>>

LastClose(d) == d.rows[Len(d.rows)].Close

Watched(wl, t) == \E i \in 1..Len(wl) : wl[i].Ticker = t

\* thousandths in one hundredth
CentStep == 10

\* float(f"{x:.2f}") of a close x in thousandths: the nearest hundredth.
\* Half-way between two hundredths the float nearest to x decides: when x
\* is a float itself (a multiple of 1/8) the even hundredth is taken,
\* otherwise the float lies above or below x and either side can come out.
Round2Set(c) ==
    IF c = NaN THEN {NaN}
    ELSE LET q == c \div CentStep
             r == c % CentStep
             lo == q * CentStep
             hi == (q + 1) * CentStep
         IN  IF 2 * r < CentStep THEN {lo}
             ELSE IF 2 * r > CentStep THEN {hi}
             ELSE IF c % 125 = 0 THEN (IF q % 2 = 0 THEN {lo} ELSE {hi})
             ELSE {lo, hi}

AppendResult ==
    /\ pc = "append"
    /\ trend' = TrendLabel(score)
    /\ \E p \in Round2Set(LastClose(df[1])) :
          batch_results' = Append(batch_results,
                [ticker |-> final_t, price |-> p,
                 score |-> score, trend |-> TrendLabel(score)])
    /\ watch_list' = IF Watched(watch_list, final_t) THEN watch_list
                     ELSE Append(watch_list,
                            [Ticker |-> final_t, Score |-> score,
                             Price |-> LastClose(df[1])])
    /\ pc' = "next"
    /\ UNCHANGED <<target_tickers, idx, failures, news, vol, error, df,
                   normVars, scoreVars, fetchVars>>

\* the next round of the for loop.  The locals of the body are dead here
\* (each is assigned again before it is read) and are set back.
Advance ==
    /\ pc = "next"
    /\ idx' = idx + 1
    /\ ticker' = <<>>
    /\ final_t' = <<>>
    /\ df' = None
    /\ news' = None
    /\ vol' = None
    /\ score' = BaseScore
    /\ rules' = {}
    /\ trend' = "none"
    /\ pc' = "loop"
    /\ UNCHANGED <<m_type, target_tickers, batch_results, watch_list,
                   failures, error, fetchVars>>

\* progress_bar.progress(1.0); status_text.success(...)
Finish ==
    /\ pc = "loop"
    /\ idx >= Len(target_tickers)
    /\ pc' = "done"
    /\ UNCHANGED <<df, trend, normVars, scoreVars, batchVars, fetchVars>>

\* the sidebar's clear-history button, pressed after the run: the list is
\* emptied and the script runs again, this time without a batch
ClearHistory ==
    /\ pc = "done"
    /\ watch_list # <<>>
    /\ watch_list' = <<>>
    /\ batch_results' = <<>>
    /\ failures' = <<>>
    /\ pc' = "idle"
    /\ UNCHANGED <<target_tickers, idx, news, vol, error, df, trend,
                   normVars, scoreVars, fetchVars>>

Next ==
    \/ BeginTicker
    \/ FetchAttempt
    \/ FetchExhausted
    \/ Process
    \/ Analyze
    \/ Fail
    \/ AppendResult
    \/ Advance
    \/ Finish
    \/ ClearHistory

Spec == Init /\ [][Next]_vars

(***************************************************************************)
(* Properties.                                                             *)
(***************************************************************************)
AllFailed(log) == \A i \in 1..Len(log) : OutcomeKind(log[i]) # "ok"

Returned == pc = "process"

\* C1: fetch_data_robust makes at most 3 upstream attempts and stops at the
\* first one that succeeds: while it runs every attempt so far has failed;
\* when it returns a frame, that frame is the (normalised) result of the
\* last attempt, the only successful one; when it returns None, exactly 3
\* attempts were made and all failed (by exception, empty result or missing
\* Close); no exception reaches the caller.
C1_BoundedRetry ==
    /\ attempt <= 3
    /\ pc \in {"fetch", "process"} =>
          /\ Len(attempt_log) = attempt
          /\ error = "none"
    /\ pc = "fetch" => AllFailed(attempt_log) /\ fetched = None
    /\ (Returned /\ fetched # None) =>
          /\ attempt \in 1..3
          /\ OutcomeKind(attempt_log[attempt]) = "ok"
          /\ AllFailed(SubSeq(attempt_log, 1, attempt - 1))
          /\ fetched = Some(NormalizeColumns(attempt_log[attempt].frame))
    /\ (Returned /\ fetched = None) =>
          /\ attempt = 3
          /\ AllFailed(attempt_log)

\* two failures of different kinds, then a success: returned after 3 tries
C1_Witness ==
    /\ Returned
    /\ fetched # None
    /\ attempt = 3
    /\ OutcomeKind(attempt_log[1]) = "exception"
    /\ OutcomeKind(attempt_log[2]) = "no_close"
    /\ OutcomeKind(attempt_log[3]) = "ok"

Scored == pc = "scored"

Frame == df[1]

\* C2: for every series, calculate_score returns an integer score with
\* 0 <= score <= 100, also when an exception ends the rule chain early.
C2_ScoreBounded == Scored => score \in 0..100

\* the Volume column is missing: the chain is cut after the trend and
\* support rules have been applied
C2_Witness ==
    /\ Scored
    /\ Len(Frame.rows) >= 60
    /\ ~HasCol(Frame, "Volume")
    /\ calculate_score_run(Frame).swallowed
    /\ rules = {"trend_up", "support"}
    /\ score = 85

ThresholdLabels == {TrendLabel(s) : s \in 0..100}

\* C3 as amended: for any series with fewer than 60 points calculate_score
\* returns exactly 50 with none of the three rules applied, whatever the
\* closes, volumes and averages, and the trend label of that score is the
\* middle score-threshold label ("consolidating").
C3_ShortSeriesNeutral ==
    (Scored /\ Len(Frame.rows) < 60) =>
        /\ score = 50
        /\ rules = {}
        /\ trend = "consolidating"

C3_Witness ==
    /\ Scored
    /\ Len(Frame.rows) = 59
    /\ Frame.rows[59].Close = 3
    /\ Frame.rows[58].Close = 1
    /\ Frame.rows[59].Volume = 13
    /\ score = 50
    /\ trend = "consolidating"

\* C3 as stated: a series with fewer than 60 points gets score 50 and a
\* dedicated insufficient-data label, not one of the score-threshold labels.
C3_Original ==
    (Scored /\ Len(Frame.rows) < 60) =>
        /\ score = 50
        /\ trend \notin ThresholdLabels

Labelled == pc = "labelled"

\* C4 as amended: the trend label has three buckets: score >= 70 is
\* "bullish", score <= 30 is "bearish", 31..69 is "consolidating"; so 70 and
\* 69 differ and 30 and 31 differ, while 75 and 74, 60 and 59, 40 and 41
\* each share a label.
C4_ThreeBuckets ==
    Labelled =>
        /\ (score >= 70) <=> (trend = "bullish")
        /\ (score <= 30) <=> (trend = "bearish")
        /\ (score \in 31..69) <=> (trend = "consolidating")
        /\ TrendLabel(70) # TrendLabel(69)
        /\ TrendLabel(30) # TrendLabel(31)
        /\ TrendLabel(75) = TrendLabel(74)
        /\ TrendLabel(60) = TrendLabel(59)
        /\ TrendLabel(40) = TrendLabel(41)

C4_Witness == Labelled /\ score = 70 /\ trend = "bullish"

ClaimedBucket(s) ==
    IF s >= 75 THEN "strong bullish"
    ELSE IF s >= 60 THEN "mildly bullish"
    ELSE IF s <= 40 THEN "bearish correction"
    ELSE "consolidating/neutral"

\* C4 as stated: the labels split the scores into the four buckets >= 75,
\* 60..74, 41..59 and <= 40: two scores share a label exactly when they
\* share a bucket.
C4_Original ==
    Labelled =>
        \A t \in 0..100 :
            (TrendLabel(t) = trend) <=> (ClaimedBucket(t) = ClaimedBucket(score))

Normalized == pc = "normalized"

Trimmed == Strip(UpperStr(ticker))

AllDecimal(t) == t # <<>> /\ \A i \in 1..Len(t) : t[i] \in {"2", "7"}

\* C5 as amended: the token is uppercased and trimmed; when its trimmed
\* form is non-empty and all digits and the market is TW, the identifier is
\* the token plus ".TW"; in every other case (other tokens, or market US)
\* it is the trimmed uppercased token with no suffix.  The result is a
\* function of the raw token and the market.
C5_NormalizeByMarket ==
    Normalized =>
        /\ (AllDecimal(Trimmed) /\ m_type = "TW") =>
               final_t = Trimmed \o <<".", "T", "W">>
        /\ (~AllDecimal(Trimmed) \/ m_type = "US") => final_t = Trimmed
        /\ \A i \in 1..Len(final_t) : final_t[i] \notin {"n", "t"}
        /\ final_t # <<>> => final_t[1] # " " /\ final_t[Len(final_t)] # " "

C5_Witness ==
    /\ Normalized
    /\ m_type = "TW"
    /\ ticker = <<" ", "2", "7">>
    /\ final_t = <<"2", "7", ".", "T", "W">>

\* C5 as stated: every all-digit token gets the ".TW" suffix and every
\* other token none, the result depending on the raw token only.
C5_Original ==
    Normalized =>
        final_t = IF AllDecimal(Trimmed) THEN Trimmed \o <<".", "T", "W">>
                  ELSE Trimmed

LastRow == Frame.rows[Len(Frame.rows)]
PrevRow == Frame.rows[Len(Frame.rows) - 1]

\* C6: for a series of at least 60 points whose latest MA20 > latest MA60,
\* latest close > latest MA20, latest volume > 1.5 times the 5-point mean
\* volume and latest close > previous close, calculate_score applies the
\* trend (+25), support (+10) and volume (+15) rules once each and returns
\* exactly 100, which gets the bullish label.
C6_AllRulesFire ==
    ( /\ Scored
      /\ Len(Frame.rows) >= 60
      /\ HasCol(Frame, "Volume")
      /\ Gt(LastMA20(Frame), LastMA60(Frame))
      /\ Gt(Val(LastRow.Close), LastMA20(Frame))
      /\ Gt(Val(LastRow.Volume), Times15(VolMA5(Frame)))
      /\ Gt(Val(LastRow.Close), Val(PrevRow.Close)) ) =>
        /\ rules = {"trend_up", "support", "volume"}
        /\ score = 50 + 25 + 10 + 15
        /\ score = 100
        /\ trend = "bullish"

\* the 120-point linear ramp from 100 to 160 with a doubled last volume
C6_Witness ==
    /\ Scored
    /\ Frame.rows = RampRows
    /\ score = 100
    /\ rules = {"trend_up", "support", "volume"}

\* C7: whatever each ticker's fetch yields, the batch loop never ends with
\* an uncaught error.
C7_BatchNeverAborts == pc # "crashed" /\ error = "none"

HasDefinedClose(rows) == \E i \in 1..Len(rows) : rows[i].Close # NaN

\* C8 as amended: when process_stock_data returns a frame, its trailing
\* window (the last min(120, len) points) is never empty, and the volume
\* profile is None exactly when no point of the window has a close or the
\* Volume column is missing; a one-point series with a close and a Volume
\* column gets a profile.  Without a frame the profile is None.
C8_ProfileAbsence ==
    /\ (pc = "display" /\ df = None) => vol = None
    /\ (pc = "display" /\ df # None) =>
          /\ RecentRows(Frame) # <<>>
          /\ Len(RecentRows(Frame)) <= 120
          /\ (vol = None) <=> ( \/ ~HasDefinedClose(RecentRows(Frame))
                                \/ ~HasCol(Frame, "Volume") )
          /\ (vol # None) => vol[1].bins = 30

C8_Witness ==
    /\ pc = "display"
    /\ df # None
    /\ Len(Frame.rows) = 1
    /\ vol # None

\* C8 as stated: the profile is None whenever the trailing window has
\* fewer than 2 points.
C8_Original ==
    (pc = "display" /\ df # None /\ Len(RecentRows(Frame)) < 2) => vol = None

VolumesNonNegative(d) == \A i \in 1..Len(d.rows) : d.rows[i].Volume >= 0

SurgeAndRising(d) ==
    /\ Gt(VolMA5(d), Val(0))
    /\ Gt(VolRatio(d), [num |-> 3, den |-> 2])
    /\ Gt(Val(d.rows[Len(d.rows)].Close), Val(d.rows[Len(d.rows) - 1].Close))

\* C9 as amended: for a series of at least 60 points with non-negative
\* volumes whose latest MA20 and MA60 are both defined, the +15 volume
\* bonus is applied exactly when vol_ma5 > 0, latest volume / vol_ma5 > 1.5
\* and latest close > previous close; it is never applied when vol_ma5 = 0.
C9_VolumeBonus ==
    ( /\ Scored
      /\ Len(Frame.rows) >= 60
      /\ HasCol(Frame, "Volume")
      /\ VolumesNonNegative(Frame)
      /\ ~IsNa(LastMA20(Frame))
      /\ ~IsNa(LastMA60(Frame)) ) =>
        /\ ("volume" \in rules) <=> SurgeAndRising(Frame)
        /\ VolMA5(Frame).num = 0 => "volume" \notin rules

\* vol_ma5 = 0.2, latest volume 2, rising close: the bonus is applied
C9_Witness ==
    /\ Scored
    /\ Len(Frame.rows) >= 60
    /\ VolumesNonNegative(Frame)
    /\ VolMA5(Frame) = [num |-> 2, den |-> 5]
    /\ "volume" \in rules
    /\ score = 75

\* C9 as stated: for every series of at least 60 points with non-negative
\* volumes the bonus is applied exactly when vol_ma5 > 0, latest volume /
\* vol_ma5 > 1.5 and latest close > previous close.
C9_Original ==
    ( /\ Scored
      /\ Len(Frame.rows) >= 60
      /\ HasCol(Frame, "Volume")
      /\ VolumesNonNegative(Frame) ) =>
        (("volume" \in rules) <=> SurgeAndRising(Frame))

Delta(rule, d) == IF rule \in rules THEN d ELSE 0

\* C10: the score is one of 25, 35, 40, 50, 60, 65, 75, 85, 100 and equals
\* the unclamped sum of the applied deltas; whenever the trend rule awards
\* +25 the support rule awards +10 too, so that score is 85 or 100; no
\* score is below 25.
C10_ScoreValues ==
    Scored =>
        /\ score \in {25, 35, 40, 50, 60, 65, 75, 85, 100}
        /\ score = 50 + Delta("trend_up", 25) - Delta("trend_down", 25)
                      + Delta("support", 10) + Delta("volume", 15)
        /\ ("trend_up" \in rules) =>
               ("support" \in rules /\ score \in {85, 100})
        /\ score >= 25

\* the trend penalty with no bonus: the lowest score
C10_Witness == Scored /\ rules = {"trend_down"} /\ score = 25

====
